---- MODULE Spec2Model ----
(***************************************************************************)
(* The resumable work tracker of the blog pipeline (src/main.py,           *)
(* run_full_pipeline) together with the helpers it calls.                  *)
(*                                                                         *)
(* Strings are sequences of one-character strings, so that strip(),        *)
(* lower() and safe_slug() are computed, not assumed.  File names that the *)
(* code builds from literals are kept as one token per literal.            *)
(***************************************************************************)
EXTENDS Integers, Sequences, FiniteSets, TLC

(***************************************************************************)
(* Bounds of the model and program constants.                              *)
(***************************************************************************)
\* longest legacy topic list found on disk before the first run
MaxLegacy == 2
\* longest list the Topic Proposer returns
MaxResp == 3
\* most WorkItems the tracker list holds in the model (one fewer in a
\* behaviour with a fault of the environment)
MaxItems == 3
\* most faults of the environment in one behaviour: the process killed, or
\* an artifact removed from disk behind the tracker's back
MaxFaults == 1
\* NUM_NEW_TOPICS, main.py line 293
NUM_NEW_TOPICS == 2
\* default max_length of safe_slug
SlugMaxLength == 80

(***************************************************************************)
(* Text helpers.                                                           *)
(***************************************************************************)
LowerLetters ==
  {"a","b","c","d","e","f","g","h","i","j","k","l","m",
   "n","o","p","q","r","s","t","u","v","w","x","y","z"}

Digits == {"0","1","2","3","4","5","6","7","8","9"}

\* str.lower() on one character (the upper-case letters the model uses)
LowerChar(c) ==
  CASE c = "A" -> "a"
    [] c = "B" -> "b"
    [] c = "C" -> "c"
    [] c = "D" -> "d"
    [] OTHER -> c

Lower(s) == [k \in DOMAIN s |-> LowerChar(s[k])]

IsSpace(c) == c \in {" ", "\t", "\n"}

RECURSIVE LStrip(_)
LStrip(s) ==
  IF s = <<>> THEN s
  ELSE IF IsSpace(Head(s)) THEN LStrip(Tail(s)) ELSE s

RECURSIVE RStrip(_)
RStrip(s) ==
  IF s = <<>> THEN s
  ELSE IF IsSpace(s[Len(s)]) THEN RStrip(SubSeq(s, 1, Len(s) - 1)) ELSE s

\* str.strip()
Strip(s) == RStrip(LStrip(s))

\* the normalized title the tracker compares: title.strip().lower()
NormTitle(s) == Lower(Strip(s))

Min(a, b) == IF a < b THEN a ELSE b

RECURSIVE ReplaceAmp(_)
ReplaceAmp(s) ==
  IF s = <<>> THEN <<>>
  ELSE IF Head(s) = "&" THEN <<"a", "n", "d">> \o ReplaceAmp(Tail(s))
  ELSE <<Head(s)>> \o ReplaceAmp(Tail(s))

SlugKept(c) == c \in LowerLetters \cup Digits \cup {"-"} \/ IsSpace(c)

RECURSIVE CollapseSpace(_)
CollapseSpace(s) ==
  IF s = <<>> THEN <<>>
  ELSE IF IsSpace(Head(s))
       THEN <<"_">> \o CollapseSpace(LStrip(s))
       ELSE <<Head(s)>> \o CollapseSpace(Tail(s))

RECURSIVE StripUnderscore(_)
StripUnderscore(s) ==
  IF s = <<>> THEN s
  ELSE IF Head(s) = "_" THEN StripUnderscore(Tail(s))
  ELSE IF s[Len(s)] = "_" THEN StripUnderscore(SubSeq(s, 1, Len(s) - 1))
  ELSE s

safe_slug(text, max_length) ==
  LET t1 == Strip(Lower(text))
      t2 == ReplaceAmp(t1)
      t3 == SelectSeq(t2, SlugKept)
      t4 == CollapseSpace(t3)
  IN  StripUnderscore(SubSeq(t4, 1, Min(max_length, Len(t4))))

IsAlnum(c) == c \in LowerLetters \cup Digits

RECURSIVE DropNonAlnum(_)
DropNonAlnum(s) ==
  IF s = <<>> THEN s
  ELSE IF IsAlnum(Head(s)) THEN s ELSE DropNonAlnum(Tail(s))

RECURSIVE HyphenRuns(_)
HyphenRuns(s) ==
  IF s = <<>> THEN <<>>
  ELSE IF IsAlnum(Head(s)) THEN <<Head(s)>> \o HyphenRuns(Tail(s))
  ELSE IF DropNonAlnum(s) = <<>> THEN <<>>
  ELSE <<"-">> \o HyphenRuns(DropNonAlnum(s))

\* slugify(blog_title) of the images generator: lower case, every run of
\* other characters becomes one hyphen, no hyphen at either end
Slugify(title) == HyphenRuns(DropNonAlnum(Lower(title)))

(***************************************************************************)
(* Inputs of the model: the titles the backend and the legacy files use.   *)
(***************************************************************************)
T_Ab == <<"A", "b">>
T_ab == <<" ", "a", "b">>
T_cx == <<"c", "!">>
T_c == <<"c">>
T_blank == <<" ">>

\* the only key of the record clean_and_parse_json returns for unparsable text
RawOutputKey == <<"r","a","w","_","o","u","t","p","u","t">>

\* the catalogue the model draws topic lists from: a blank title, two titles
\* that differ only in case and surrounding blanks, and two titles that differ
\* only in a character safe_slug removes
Catalogue == <<T_blank, T_Ab, T_ab, T_cx, T_c>>

\* the sub-lists of s (order kept) of at most n entries
RECURSIVE SubLists(_, _)
SubLists(s, n) ==
  IF s = <<>> \/ n = 0 THEN {<<>>}
  ELSE SubLists(Tail(s), n) \cup {<<Head(s)>> \o l : l \in SubLists(Tail(s), n - 1)}

\* what generate_blog_topics can give back: a parsed list, the empty record,
\* the {raw_output: ...} record, [] after a backend error, or an exception
Responses ==
  {[kind |-> "list", items |-> l] : l \in SubLists(Catalogue, MaxResp)}
    \cup {[kind |-> k, items |-> <<>>] : k \in {"empty", "raw", "api_error", "raise"}}

\* a topic list left behind by an earlier pipeline variant
LegacyLists == SubLists(SubSeq(Catalogue, 1, 3), MaxLegacy) \ {<<>>}

\* the titles an item can carry: a stripped catalogue title, or the key of
\* the raw-output record
StoredTitles == {Strip(Catalogue[k]) : k \in DOMAIN Catalogue} \cup {RawOutputKey}

\* safe_slug(topic_title) and slugify(blog_title), computed once for every
\* title an item can carry
SafeSlugOf == [t \in StoredTitles |-> safe_slug(t, SlugMaxLength)]

SlugifyOf == [t \in StoredTitles |-> Slugify(t)]

\* save_guideline_text: os.path.join(out_dir, f"{slug}_guideline.txt")
GuidelinePath(title) ==
  <<"output/guidelines/">> \o SafeSlugOf[title] \o <<"_guideline.txt">>

\* save_blog_md: os.path.join(out_dir, f"{slug}_blog.md")
BlogPath(title) ==
  <<"output/blogs/">> \o SafeSlugOf[title] \o <<"_blog.md">>

\* generate_images_for_blog returns the folder it wrote to (a string)
ImagesFolder(title) == <<"output/images/">> \o SlugifyOf[title]

\* results of generate_guideline_text / generate_blog_from_guideline
TextOutcomes == {"text", "empty", "raise"}
\* results of generate_images_for_blog: the folder, or an exception
ImageOutcomes == {"folder", "raise"}
\* results of summarize_company_info
ProfileOutcomes == {"profile", "empty", "raise"}
\* where the process can die inside a step that persists
CrashPoints == {"none", "before_save", "during_save"}

(***************************************************************************)
(* clean_and_parse_json (utils/json_utils.py).  A model output is a        *)
(* sequence of pieces: a code fence, the word json, a line break, a blank, *)
(* prose, the brackets and braces, the number 0, and a run of opening      *)
(* brackets deeper than the decoder's recursion limit.  A parsed value is  *)
(* written as its pieces without white space.                              *)
(***************************************************************************)
\* three backquotes
Fence == "fence"

DeepNesting == "[[[..."

OutputPieces ==
  {Fence, "json", "\n", " ", "x", "{", "}", "[", "]", "0", DeepNesting}

\* the longest model output followed
MaxOutput == 4

ModelOutputs == UNION {[1..n -> OutputPieces] : n \in 0..MaxOutput}

\* \s* of the pattern, from position j
RECURSIVE SkipSpace(_, _)
SkipSpace(s, j) ==
  IF j <= Len(s) /\ IsSpace(s[j]) THEN SkipSpace(s, j + 1) ELSE j

\* re.sub(r"^FENCE(?:json)?\s*|FENCE$", "", s, flags=re.MULTILINE), from
\* position i: a fence at the start of a line goes with a following "json"
\* and white space, a fence at the end of a line goes alone
RECURSIVE SubFences(_, _)
SubFences(s, i) ==
  IF i > Len(s) THEN <<>>
  ELSE IF s[i] = Fence /\ (i = 1 \/ s[i - 1] = "\n")
       THEN LET j == IF i + 1 <= Len(s) /\ s[i + 1] = "json" THEN i + 2 ELSE i + 1
            IN SubFences(s, SkipSpace(s, j))
       ELSE IF s[i] = Fence /\ (i = Len(s) \/ s[i + 1] = "\n")
            THEN SubFences(s, i + 1)
            ELSE <<s[i]>> \o SubFences(s, i + 1)

\* cleaned = re.sub(..., model_output.strip(), ...).strip()
Cleaned(model_output) == Strip(SubFences(Strip(model_output), 1))

NoSpace(s) == SelectSeq(s, LAMBDA c : ~IsSpace(c))

\* the JSON values of the pieces: 0, [], {}, and an array of one value
RECURSIVE IsJsonValue(_)
IsJsonValue(u) ==
  \/ u \in {<<"0">>, <<"[", "]">>, <<"{", "}">>}
  \/ /\ Len(u) >= 3
     /\ u[1] = "[" /\ u[Len(u)] = "]"
     /\ IsJsonValue(SubSeq(u, 2, Len(u) - 1))

\* the decoder meets the deep run where it expects a value: after nothing
\* but opening brackets
MeetsDeepNesting(u) ==
  \E k \in 1..Len(u) : u[k] = DeepNesting /\ \A j \in 1..(k - 1) : u[j] = "["

\* json.loads: the value, a JSONDecodeError, or the RecursionError the
\* decoder raises while it descends into the deep run
json_loads(s) ==
  LET u == NoSpace(s)
  IN IF IsJsonValue(u) THEN [kind |-> "value", val |-> u]
     ELSE IF MeetsDeepNesting(u) THEN [kind |-> "RecursionError"]
     ELSE [kind |-> "JSONDecodeError"]

\* re.search(r"\{[\s\S]*\}", cleaned): from the first opening brace to the
\* last closing brace after it; <<>> when there is no match
BraceBlock(s) ==
  LET opens == {k \in 1..Len(s) : s[k] = "{"}
  IN IF opens = {} THEN <<>>
     ELSE LET i == CHOOSE k \in opens : \A o \in opens : k <= o
              closes == {k \in (i + 1)..Len(s) : s[k] = "}"}
          IN IF closes = {} THEN <<>>
             ELSE SubSeq(s, i, CHOOSE k \in closes : \A c \in closes : k >= c)

EmptyRecord == [kind |-> "value", val |-> <<"{", "}">>]

RawOutput(model_output) == [kind |-> "raw_output", raw_output |-> model_output]

\* only json.JSONDecodeError is caught around the first json.loads; the
\* second one is inside "except Exception"
clean_and_parse_json(model_output) ==
  IF model_output = <<>> THEN EmptyRecord
  ELSE LET cleaned == Cleaned(model_output)
           first == json_loads(cleaned)
           m == BraceBlock(cleaned)
       IN CASE first.kind = "value" -> first
            [] first.kind = "RecursionError" -> [kind |-> "raise"]
            [] OTHER ->
                 IF m # <<>> /\ json_loads(m).kind = "value"
                 THEN json_loads(m)
                 ELSE RawOutput(model_output)

\* no call of clean_and_parse_json is under way
NotParsed == [model_output |-> <<>>, result |-> [kind |-> "none"]]

\* no call of safe_slug is under way
NotSlugged == [text |-> <<>>, max_length |-> 0, done |-> FALSE, result |-> <<>>]

(***************************************************************************)
(* State.                                                                  *)
(***************************************************************************)
VARIABLES
  summaryFile,     \* output/<domain>_summary.json: "absent", "ok", "corrupt"
  statusFile,      \* output/<domain>_topics_status.json: [state, data]
  topicsFile,      \* output/<domain>_topics.json: [exists, items]
  allTopicsFile,   \* output/<domain>_all_topics.json: [exists, items]
  files,           \* guideline and blog artifacts present on disk (paths)
  company_profile, \* in memory: "none", "profile", "empty"
  topic_status,    \* in memory: the list of WorkItems
  todo,            \* indices of topic_status the current loop still visits
  stage,           \* position inside the ladder of Head(todo): "g", "b", "i"
  pc,              \* "idle", "existing", "new", "done", "aborted", "crashed"
  runlog,          \* this run's calls of the Site Profiler and Topic Proposer
  calls,           \* this run's generation calls for the item visited last
  visited,         \* indices of the items this run's loops have visited
  atLoad,          \* history: what this run found when it loaded the list
  record,          \* history: the last list written completely to statusFile
  paid,            \* history: the items a written list has shown with a guideline
  faults,          \* history: how many faults the environment has caused
  other,           \* a second invocation on the same files: [pc, topic_status,
                   \* todo, stage] (never started in Spec)
  parse,           \* a call of clean_and_parse_json: [model_output, result]
                   \* (made in SpecParse only)
  slug             \* a call of safe_slug: [text, max_length, done, result]
                   \* (made in SpecSlug only)

vars == <<summaryFile, statusFile, topicsFile, allTopicsFile, files,
          company_profile, topic_status, todo, stage, pc, runlog, calls,
          visited, atLoad, record, paid, faults, other, parse, slug>>

EmptyList == [kind |-> "list", refs |-> <<>>]

\* ensure_status_entry applied to {"title": ..., "keyword": ...}
ensure_status_entry(nt) ==
  [title |-> nt.title, keyword |-> nt.keyword,
   guideline_generated |-> FALSE, blog_generated |-> FALSE,
   images_generated |-> FALSE,
   guideline_path |-> <<>>, blog_path |-> <<>>, images |-> EmptyList]

\* normalize_topic_item: the title is stripped, the keyword defaults to ""
normalize_topic_item(item) == [title |-> Strip(item), keyword |-> <<>>]

\* load_json(status_file, default=[]): the default when absent or unparsable
load_json(f) == IF f.state = "ok" THEN f.data ELSE <<>>

IsComplete(t) ==
  t.guideline_generated /\ t.blog_generated /\ t.images_generated

\* the unfinished entries taken to be those without a guideline: an item
\* whose later stage failed is not taken up again
Unfinished_NotStarted(st) ==
  SelectSeq([k \in 1..Len(st) |-> k], LAMBDA k : ~st[k].guideline_generated)

\* the unfinished entries walked from the end of the list to its start
Unfinished_Backwards(st) ==
  SelectSeq([k \in 1..Len(st) |-> Len(st) + 1 - k], LAMBDA k : ~IsComplete(st[k]))

\* the unfinished entries, as indices in collection order
Unfinished(st) ==
  SelectSeq([k \in 1..Len(st) |-> k], LAMBDA k : ~IsComplete(st[k]))

\* the legacy seeding loop of run_full_pipeline
Migrate(raw_topics) ==
  [k \in 1..Len(raw_topics) |->
     ensure_status_entry(normalize_topic_item(raw_topics[k]))]

\* iterating over the Topic Proposer's result (new_raw_topics or [])
IterItems(resp) ==
  CASE resp.kind = "list" -> resp.items
    [] resp.kind = "raw" -> <<RawOutputKey>>
    [] OTHER -> <<>>

\* existing_titles_lc without .strip().lower(): the stored titles as they are
ExistingTitlesLc_AsStored(st) ==
  {st[k].title : k \in {j \in 1..Len(st) : st[j].title # <<>>}}

\* existing_titles_lc
ExistingTitlesLc(st) ==
  {NormTitle(st[k].title) : k \in {j \in 1..Len(st) : st[j].title # <<>>}}

\* the filter loop without its "len(new_topics) >= NUM_NEW_TOPICS: break"
RECURSIVE FilterNew_NoCap(_, _, _)
FilterNew_NoCap(items, seen, acc) ==
  IF items = <<>> THEN acc
  ELSE LET nt == normalize_topic_item(Head(items))
           title_lc == Lower(nt.title)
       IN IF title_lc = <<>> \/ title_lc \in seen
          THEN FilterNew_NoCap(Tail(items), seen, acc)
          ELSE FilterNew_NoCap(Tail(items), seen \cup {title_lc}, Append(acc, nt))

\* the filter loop over the proposer's result
RECURSIVE FilterNew(_, _, _)
FilterNew(items, seen, acc) ==
  IF items = <<>> THEN acc
  ELSE LET nt == normalize_topic_item(Head(items))
           title_lc == Lower(nt.title)
       IN IF title_lc = <<>> \/ title_lc \in seen
          THEN FilterNew(Tail(items), seen, acc)
          ELSE IF Len(acc) + 1 >= NUM_NEW_TOPICS
               THEN Append(acc, nt)
               ELSE FilterNew(Tail(items), seen \cup {title_lc}, Append(acc, nt))

\* simple_titles: what the new-topic step writes to both topic files
SimpleTitles(st) == [k \in 1..Len(st) |-> st[k].title]

Call(fn, item, res, stg) == [fn |-> fn, item |-> item, res |-> res, stage |-> stg]

\* the call of generate_blog_topics made with n items in the list, and what
\* the loop over its result iterates
TopicsCall(n, resp) ==
  [fn |-> "topics", item |-> n, res |-> resp.kind, stage |-> "topics",
   items |-> IterItems(resp)]

(***************************************************************************)
(* The stage ladder.  Each step maps the list, the artifacts on disk and   *)
(* the call log to their new values; "saved" says that the step ended with *)
(* save_json(status_file, topic_status), "raised" that it ended in the     *)
(* except clause.                                                          *)
(***************************************************************************)
Out(st, fl, cl, saved, raised) ==
  [ts |-> st, files |-> fl, calls |-> cl, saved |-> saved, raised |-> raised]

GuidelineGate(ts) == ~ts.guideline_generated

\* BlogGate without its first conjunct: a ladder that drafts the article of
\* an item that has no guideline
BlogGate_NoGuideline(ts) == ~ts.blog_generated

BlogGate(ts) == ts.guideline_generated /\ ~ts.blog_generated

\* ImagesGate without its first conjunct: a ladder that illustrates an item
\* that has no article
ImagesGate_NoBlog(ts) == ~ts.images_generated

ImagesGate(ts) == ts.blog_generated /\ ~ts.images_generated

\* os.path.exists(path) and a successful read, for a stored path
Readable(path, fl) == path # <<>> /\ path \in fl

\* WithGuideline without "ts['guideline_path'] = guideline_path"
WithGuideline_FlagOnly(st, i) == [st EXCEPT ![i].guideline_generated = TRUE]

WithGuideline(st, i) ==
  [st EXCEPT ![i].guideline_generated = TRUE,
             ![i].guideline_path = GuidelinePath(st[i].title)]

WithBlog(st, i) ==
  [st EXCEPT ![i].blog_generated = TRUE,
             ![i].blog_path = BlogPath(st[i].title)]

\* the images stage without "if images_meta: ts['images'] = images_meta"
WithImages_FlagOnly(st, i, ri) == [st EXCEPT ![i].images_generated = TRUE]

\* images_generated is set for every returned value; the value is stored
\* only if it is truthy
WithImages(st, i, ri) ==
  IF ri = "folder"
  THEN [st EXCEPT ![i].images_generated = TRUE,
                  ![i].images = [kind |-> "str", refs |-> ImagesFolder(st[i].title)]]
  ELSE [st EXCEPT ![i].images_generated = TRUE]

\* GuidelineStep with "if guideline_text is not None" in place of
\* "if guideline_text": an empty guideline is saved and marked
GuidelineStep_MarkEmpty(st, fl, cl, i, r) ==
  IF ~GuidelineGate(st[i]) THEN Out(st, fl, cl, FALSE, FALSE)
  ELSE LET cl1 == Append(cl, Call("guideline", i, r, "g"))
       IN IF r \in {"text", "empty"}
          THEN Out(WithGuideline(st, i), fl \cup {GuidelinePath(st[i].title)},
                   cl1, TRUE, FALSE)
          ELSE Out(st, fl, cl1, FALSE, TRUE)

\* main.py 203-219
GuidelineStep(st, fl, cl, i, r) ==
  IF ~GuidelineGate(st[i]) THEN Out(st, fl, cl, FALSE, FALSE)
  ELSE LET cl1 == Append(cl, Call("guideline", i, r, "g"))
       IN IF r = "text"
          THEN Out(WithGuideline(st, i), fl \cup {GuidelinePath(st[i].title)},
                   cl1, TRUE, FALSE)
          ELSE Out(st, fl, cl1, FALSE, r = "raise")

\* BlogStep with the flag saved but the article not yet on disk: the order
\* "mark, save, then write the file", seen between the save and the write
BlogStep_SaveFirst(st, fl, cl, i, rg, rb) ==
  IF ~BlogGate(st[i]) THEN Out(st, fl, cl, FALSE, FALSE)
  ELSE LET loaded == Readable(st[i].guideline_path, fl)
           cl1 == IF loaded THEN cl
                  ELSE Append(cl, Call("guideline", i, rg, "b"))
           cl2 == Append(cl1, Call("blog", i, rb, "b"))
       IN IF ~loaded /\ rg = "raise" THEN Out(st, fl, cl1, FALSE, TRUE)
          ELSE IF rb = "text"
               THEN Out(WithBlog(st, i), fl, cl2, TRUE, FALSE)
               ELSE Out(st, fl, cl2, FALSE, rb = "raise")

\* main.py 222-248
BlogStep(st, fl, cl, i, rg, rb) ==
  IF ~BlogGate(st[i]) THEN Out(st, fl, cl, FALSE, FALSE)
  ELSE LET loaded == Readable(st[i].guideline_path, fl)
           cl1 == IF loaded THEN cl
                  ELSE Append(cl, Call("guideline", i, rg, "b"))
           cl2 == Append(cl1, Call("blog", i, rb, "b"))
       IN IF ~loaded /\ rg = "raise" THEN Out(st, fl, cl1, FALSE, TRUE)
          ELSE IF rb = "text"
               THEN Out(WithBlog(st, i), fl \cup {BlogPath(st[i].title)},
                        cl2, TRUE, FALSE)
               ELSE Out(st, fl, cl2, FALSE, rb = "raise")

\* main.py 251-282
ImagesStep(st, fl, cl, i, rb, ri) ==
  IF ~ImagesGate(st[i]) THEN Out(st, fl, cl, FALSE, FALSE)
  ELSE LET loaded == Readable(st[i].blog_path, fl)
           cl1 == IF loaded THEN cl
                  ELSE Append(cl, Call("blog", i, rb, "i"))
           cl2 == Append(cl1, Call("images", i, ri, "i"))
       IN IF ~loaded /\ rb = "raise" THEN Out(st, fl, cl1, FALSE, TRUE)
          ELSE IF ri = "raise" THEN Out(st, fl, cl2, FALSE, TRUE)
               ELSE Out(WithImages(st, i, ri), fl, cl2, TRUE, FALSE)

\* main.py 345-354
NewGuidelineStep(st, fl, cl, i, r) ==
  IF st[i].guideline_generated THEN Out(st, fl, cl, FALSE, FALSE)
  ELSE LET cl1 == Append(cl, Call("guideline", i, r, "g"))
       IN IF r = "text"
          THEN Out(WithGuideline(st, i), fl \cup {GuidelinePath(st[i].title)},
                   cl1, TRUE, FALSE)
          ELSE Out(st, fl, cl1, FALSE, r = "raise")

\* main.py 356-367: the guideline file is opened without a fallback
NewBlogStep(st, fl, cl, i, rb) ==
  IF ~(st[i].guideline_generated /\ ~st[i].blog_generated)
  THEN Out(st, fl, cl, FALSE, FALSE)
  ELSE IF st[i].guideline_path \notin fl THEN Out(st, fl, cl, FALSE, TRUE)
  ELSE LET cl1 == Append(cl, Call("blog", i, rb, "b"))
       IN IF rb = "text"
          THEN Out(WithBlog(st, i), fl \cup {BlogPath(st[i].title)},
                   cl1, TRUE, FALSE)
          ELSE Out(st, fl, cl1, FALSE, rb = "raise")

\* main.py 369-378: the blog file is opened without a fallback
NewImagesStep(st, fl, cl, i, ri) ==
  IF ~(st[i].blog_generated /\ ~st[i].images_generated)
  THEN Out(st, fl, cl, FALSE, FALSE)
  ELSE IF st[i].blog_path \notin fl THEN Out(st, fl, cl, FALSE, TRUE)
  ELSE LET cl1 == Append(cl, Call("images", i, ri, "i"))
       IN IF ri = "raise" THEN Out(st, fl, cl1, FALSE, TRUE)
          ELSE Out(WithImages(st, i, ri), fl, cl1, TRUE, FALSE)

(***************************************************************************)
(* Files.  save_json opens the file for writing, which truncates it, and   *)
(* then streams the text: a process that dies during the write leaves a    *)
(* proper prefix of a JSON list, which load_json cannot parse.             *)
(***************************************************************************)
Written(data) == [state |-> "ok", data |-> data]

Truncated == [state |-> "corrupt", data |-> <<>>]

NoFile == [exists |-> FALSE, items |-> <<>>]

FileOf(items) == [exists |-> TRUE, items |-> items]

\* the flags and paths of the item at k: those of "data", with the flags the
\* list on disk already shows kept
MergedItem(disk, data, k) ==
  IF k \in DOMAIN disk /\ k \in DOMAIN data
  THEN [data[k] EXCEPT
          !.guideline_generated = @ \/ disk[k].guideline_generated,
          !.blog_generated = @ \/ disk[k].blog_generated,
          !.images_generated = @ \/ disk[k].images_generated]
  ELSE IF k \in DOMAIN data THEN data[k] ELSE disk[k]

\* a save that reads the file back and merges into it what it writes
save_json_Merge(old, data, crash) ==
  CASE crash = "none" ->
         LET disk == IF old.state = "ok" THEN old.data ELSE <<>>
             n == IF Len(disk) > Len(data) THEN Len(disk) ELSE Len(data)
         IN [state |-> "ok", data |-> [k \in 1..n |-> MergedItem(disk, data, k)]]
    [] crash = "before_save" -> old
    [] OTHER -> [state |-> "corrupt", data |-> <<>>]

\* save_json(status_file, data) for a process that may die at "crash"
save_json(old, data, crash) ==
  CASE crash = "none" -> Written(data)
    [] crash = "before_save" -> old
    [] OTHER -> Truncated

\* the list a run works on after loading: the status file, or the seed made
\* from a legacy topic file when the loaded list is empty (main.py 138-180)
Seeding(loaded, tf, atf) == loaded = <<>> /\ (tf.exists \/ atf.exists)

LoadOrSeed(loaded, tf, atf) ==
  IF loaded # <<>> THEN loaded
  ELSE IF tf.exists THEN Migrate(tf.items)
  ELSE IF atf.exists THEN Migrate(atf.items)
  ELSE <<>>

\* the step after the first loop without its "if unfinished: return"
ProposeGate_Always(st) == TRUE

\* main.py 291: new topics are requested only when nothing is unfinished
ProposeGate(st) == Unfinished(st) = <<>>

\* the append step rebuilding every entry from its title and keyword, as
\* simple_titles is built: the flags and paths of the items already there
\* are reset
AppendNew_Rebuild(st, accepted) ==
  [k \in 1..Len(st) |->
     ensure_status_entry([title |-> st[k].title, keyword |-> st[k].keyword])]
  \o [k \in 1..Len(accepted) |-> ensure_status_entry(accepted[k])]

\* the entries appended for the accepted topics (main.py 322-330)
AppendNew(st, accepted) ==
  st \o [k \in 1..Len(accepted) |-> ensure_status_entry(accepted[k])]

\* what a run that reaches the end of run_full_pipeline gives back: the
\* function has no return statement with a value, and its last two prints
\* (main.py 386-387) are a fixed line and the name of the status file; no
\* number is computed from the list "st"
RunReport(st) ==
  [returned |-> "None",
   printed |-> <<"pass_finished", "status_file">>,
   counts |-> <<>>]

\* what a run found: the length of the loaded list, whether every loaded
\* item was complete, and the length after seeding
AtLoad(loaded, st) ==
  [len |-> Len(loaded),
   complete |-> \A k \in DOMAIN loaded : IsComplete(loaded[k]),
   seeded |-> Len(st)]

\* the items a list shows with guideline_generated set
PaidIn(st) == {<<k, st[k].title>> : k \in {j \in DOMAIN st : st[j].guideline_generated}}

\* the list "data" has been written completely to the status file
Persisted(data) ==
  /\ record' = data
  /\ paid' = paid \cup PaidIn(data)

NotPersisted == UNCHANGED <<record, paid>>

\* the second invocation before it is started
PeerOff == [pc |-> "off", topic_status |-> <<>>, todo |-> <<>>, stage |-> "g"]

Init ==
  /\ summaryFile = "absent"
  /\ statusFile = [state |-> "absent", data |-> <<>>]
  /\ \E l \in LegacyLists \cup {<<>>}, where \in {"topics", "all_topics"} :
       /\ topicsFile = IF l # <<>> /\ where = "topics" THEN FileOf(l) ELSE NoFile
       /\ allTopicsFile = IF l # <<>> /\ where = "all_topics" THEN FileOf(l) ELSE NoFile
  /\ files = {}
  /\ company_profile = "none"
  /\ topic_status = <<>>
  /\ todo = <<>>
  /\ stage = "g"
  /\ pc = "idle"
  /\ runlog = <<>>
  /\ calls = <<>>
  /\ visited = {}
  /\ atLoad = AtLoad(<<>>, <<>>)
  /\ record = <<>>
  /\ paid = {}
  /\ faults = 0
  /\ other = PeerOff
  /\ parse = NotParsed
  /\ slug = NotSlugged

\* the process is gone: nothing of the run is left but the list it held,
\* which is kept to compare it with what the next run loads
Dead(st) ==
  /\ pc' = "crashed"
  /\ topic_status' = st
  /\ todo' = <<>>
  /\ stage' = "g"
  /\ runlog' = <<>>
  /\ calls' = <<>>
  /\ visited' = {}

\* the longest list the model follows, given the faults so far
ItemCap(f) == IF f = 0 THEN MaxItems ELSE MaxItems - 1

\* the environment may cause one more fault
MayFault(st) == faults < MaxFaults /\ Len(st) < MaxItems

\* the process is killed by the environment
Killed(st) ==
  /\ MayFault(st)
  /\ faults' = faults + 1
  /\ Dead(st)

\* a summary file that is regenerated by every run
Cached_Never(sf) == FALSE

\* main.py 103: os.path.exists(summary_file)
Cached(sf) == sf # "absent"

(***************************************************************************)
(* run_full_pipeline up to the first loop (main.py 85-196).                *)
(***************************************************************************)
StartRun ==
  /\ pc \in {"idle", "done", "aborted", "crashed"}
  /\ UNCHANGED <<other, parse, slug>>
  /\ \E po \in ProfileOutcomes, crashS \in {"none", "during_save"},
        crashM \in {"none", "during_save"} :
       LET cached == Cached(summaryFile)
           profile == IF cached
                      THEN (IF summaryFile = "ok" THEN "profile" ELSE "empty")
                      ELSE po
           cl == IF cached THEN <<>> ELSE <<Call("profile", 0, po, "profile")>>
           loaded == load_json(statusFile)
           seeding == Seeding(loaded, topicsFile, allTopicsFile)
           st == LoadOrSeed(loaded, topicsFile, allTopicsFile)
       IN
         IF ~cached /\ po = "raise"
         THEN \* summarize_company_info raised: nothing catches it
              /\ crashS = "none" /\ crashM = "none"
              /\ Dead(<<>>)
              /\ company_profile' = "none"
              /\ NotPersisted
              /\ UNCHANGED <<summaryFile, statusFile, topicsFile, allTopicsFile,
                             files, atLoad, faults>>
         ELSE IF ~cached /\ po = "empty"
         THEN \* no profile: return
              /\ crashS = "none" /\ crashM = "none"
              /\ pc' = "aborted"
              /\ company_profile' = "none"
              /\ topic_status' = <<>>
              /\ todo' = <<>>
              /\ stage' = "g"
              /\ runlog' = cl
              /\ calls' = <<>>
              /\ visited' = {}
              /\ NotPersisted
              /\ UNCHANGED <<summaryFile, statusFile, topicsFile, allTopicsFile,
                             files, atLoad, faults>>
         ELSE IF crashS = "during_save"
         THEN \* the process is killed while the summary is written
              /\ ~cached /\ crashM = "none"
              /\ Killed(<<>>)
              /\ summaryFile' = "corrupt"
              /\ company_profile' = profile
              /\ NotPersisted
              /\ UNCHANGED <<statusFile, topicsFile, allTopicsFile, files, atLoad>>
         ELSE IF crashM = "during_save"
         THEN \* the process is killed while the seeded list is written
              /\ seeding
              /\ Killed(st)
              /\ summaryFile' = IF cached THEN summaryFile ELSE "ok"
              /\ company_profile' = profile
              /\ statusFile' = Truncated
              /\ atLoad' = AtLoad(loaded, st)
              /\ NotPersisted
              /\ UNCHANGED <<topicsFile, allTopicsFile, files>>
         ELSE /\ Len(st) <= ItemCap(faults)
              /\ summaryFile' = IF cached THEN summaryFile ELSE "ok"
              /\ company_profile' = profile
              /\ topic_status' = st
              /\ statusFile' = IF seeding THEN Written(st) ELSE statusFile
              /\ atLoad' = AtLoad(loaded, st)
              /\ IF seeding THEN Persisted(st) ELSE NotPersisted
              /\ pc' = "existing"
              /\ todo' = Unfinished(st)
              /\ stage' = "g"
              /\ runlog' = cl
              /\ calls' = <<>>
              /\ visited' = {}
              /\ UNCHANGED <<topicsFile, allTopicsFile, files, faults>>

(***************************************************************************)
(* One stage of the ladder for Head(todo).  "out" is the result of the     *)
(* step; the process either goes on to (nstage, ntodo, npc) or is killed   *)
(* at "crash" (only a step that persists has such points).                 *)
(***************************************************************************)
Ladder(out, crash, nstage, ntodo, npc) ==
  /\ files' = out.files
  /\ UNCHANGED <<summaryFile, topicsFile, allTopicsFile, company_profile, atLoad,
                 other, parse, slug>>
  /\ IF crash = "none"
     THEN /\ topic_status' = out.ts
          /\ statusFile' = IF out.saved THEN save_json(statusFile, out.ts, crash)
                            ELSE statusFile
          /\ IF out.saved THEN Persisted(out.ts) ELSE NotPersisted
          /\ pc' = npc
          /\ stage' = nstage
          /\ todo' = ntodo
          /\ calls' = out.calls
          /\ visited' = visited \cup {Head(todo)}
          /\ UNCHANGED <<runlog, faults>>
     ELSE /\ out.saved
          /\ Killed(out.ts)
          /\ statusFile' = save_json(statusFile, out.ts, crash)
          /\ NotPersisted

GuidelineStage ==
  /\ pc = "existing" /\ todo # <<>> /\ stage = "g"
  /\ \E r \in TextOutcomes, crash \in CrashPoints :
       Ladder(GuidelineStep(topic_status, files, <<>>, Head(todo), r),
              crash, "b", todo, "existing")

BlogStage ==
  /\ pc = "existing" /\ todo # <<>> /\ stage = "b"
  /\ \E rg \in TextOutcomes, rb \in TextOutcomes, crash \in CrashPoints :
       Ladder(BlogStep(topic_status, files, calls, Head(todo), rg, rb),
              crash, "i", todo, "existing")

ImagesStage ==
  /\ pc = "existing" /\ todo # <<>> /\ stage = "i"
  /\ \E rb \in TextOutcomes, ri \in ImageOutcomes, crash \in CrashPoints :
       Ladder(ImagesStep(topic_status, files, calls, Head(todo), rb, ri),
              crash, "g", Tail(todo), "existing")

\* the new-items loop with its try/except around the loop instead of inside
\* it: an exception ends the loop
NewNext_Abort(td, raised, nstage) ==
  LET leave == raised \/ nstage = "g"
      ntodo == IF raised THEN <<>> ELSE IF leave THEN Tail(td) ELSE td
  IN [stage |-> IF leave THEN "g" ELSE nstage,
      todo |-> ntodo,
      pc |-> IF ntodo = <<>> THEN "done" ELSE "new"]

\* the new-items loop over newly_added[:1]: only the first new item is taken
NewNext_FirstOnly(td, raised, nstage) ==
  LET leave == raised \/ nstage = "g"
      ntodo == IF leave THEN <<>> ELSE td
  IN [stage |-> IF leave THEN "g" ELSE nstage,
      todo |-> ntodo,
      pc |-> IF ntodo = <<>> THEN "done" ELSE "new"]

\* the new-items loop taking an item again after an exception, from its
\* guideline stage
NewNext_Retry(td, raised, nstage) ==
  LET leave == ~raised /\ nstage = "g"
      ntodo == IF leave THEN Tail(td) ELSE td
  IN [stage |-> IF raised \/ leave THEN "g" ELSE nstage,
      todo |-> ntodo,
      pc |-> IF ntodo = <<>> THEN "done" ELSE "new"]

\* the position after a stage of the new-items loop: an exception leaves
\* the item, the last stage of the last item ends the run
NewNext(td, raised, nstage) ==
  LET leave == raised \/ nstage = "g"
      ntodo == IF leave THEN Tail(td) ELSE td
  IN [stage |-> IF leave THEN "g" ELSE nstage,
      todo |-> ntodo,
      pc |-> IF ntodo = <<>> THEN "done" ELSE "new"]

NewGuidelineStage ==
  /\ pc = "new" /\ todo # <<>> /\ stage = "g"
  /\ \E r \in TextOutcomes, crash \in CrashPoints :
       LET out == NewGuidelineStep(topic_status, files, <<>>, Head(todo), r)
           n == NewNext(todo, out.raised, "b")
       IN Ladder(out, crash, n.stage, n.todo, n.pc)

NewBlogStage ==
  /\ pc = "new" /\ todo # <<>> /\ stage = "b"
  /\ \E rb \in TextOutcomes, crash \in CrashPoints :
       LET out == NewBlogStep(topic_status, files, calls, Head(todo), rb)
           n == NewNext(todo, out.raised, "i")
       IN Ladder(out, crash, n.stage, n.todo, n.pc)

NewImagesStage ==
  /\ pc = "new" /\ todo # <<>> /\ stage = "i"
  /\ \E ri \in ImageOutcomes, crash \in CrashPoints :
       LET out == NewImagesStep(topic_status, files, calls, Head(todo), ri)
           n == NewNext(todo, out.raised, "g")
       IN Ladder(out, crash, n.stage, n.todo, n.pc)

(***************************************************************************)
(* After the first loop: recompute the unfinished entries and, if there is *)
(* none, ask for new topics and append them (main.py 284-340, 383-384).    *)
(***************************************************************************)
NewTopicsStep ==
  /\ pc = "existing" /\ todo = <<>>
  /\ UNCHANGED <<other, parse, slug>>
  /\ IF ~ProposeGate(topic_status)
     THEN /\ pc' = "done"
          /\ UNCHANGED <<summaryFile, statusFile, topicsFile, allTopicsFile,
                         files, company_profile, topic_status, todo, stage,
                         runlog, calls, visited, atLoad, record, paid, faults>>
     ELSE \E resp \in Responses, crash \in CrashPoints :
       LET cl1 == Append(runlog, TopicsCall(Len(topic_status), resp))
           items == IterItems(resp)
           accepted == FilterNew(items, ExistingTitlesLc(topic_status), <<>>)
           st1 == AppendNew(topic_status, accepted)
           \* generate_blog_topics dumps what it parsed to topics_file
           tf1 == IF resp.kind \in {"api_error", "raise"} THEN topicsFile
                  ELSE FileOf(items)
       IN
         /\ Len(st1) <= ItemCap(faults)
         /\ UNCHANGED <<summaryFile, files, company_profile, atLoad>>
         /\ IF resp.kind = "raise"
            THEN \* only TypeError is caught around the call: the run dies
                 /\ crash = "none"
                 /\ Dead(topic_status)
                 /\ NotPersisted
                 /\ UNCHANGED <<statusFile, topicsFile, allTopicsFile, faults>>
            ELSE IF accepted = <<>>
            THEN /\ crash = "none"
                 /\ pc' = "done"
                 /\ runlog' = cl1
                 /\ topicsFile' = tf1
                 /\ NotPersisted
                 /\ UNCHANGED <<statusFile, allTopicsFile, topic_status, todo,
                                stage, calls, visited, faults>>
            ELSE IF crash # "none"
            THEN \* killed after generate_blog_topics wrote its file
                 /\ Killed(st1)
                 /\ statusFile' = save_json(statusFile, st1, crash)
                 /\ topicsFile' = tf1
                 /\ NotPersisted
                 /\ UNCHANGED allTopicsFile
            ELSE /\ topic_status' = st1
                 /\ statusFile' = Written(st1)
                 /\ Persisted(st1)
                 /\ topicsFile' = FileOf(SimpleTitles(st1))
                 /\ allTopicsFile' = FileOf(SimpleTitles(st1))
                 /\ pc' = "new"
                 /\ todo' = Unfinished(st1)
                 /\ runlog' = cl1
                 /\ UNCHANGED <<stage, calls, visited, faults>>

(***************************************************************************)
(* The environment: the process is killed between two steps; an artifact   *)
(* is removed from disk while a run is under way (a removal between two    *)
(* runs is the same removal right after the next run has loaded).          *)
(***************************************************************************)
Crash ==
  /\ pc \in {"existing", "new"}
  /\ Killed(topic_status)
  /\ UNCHANGED <<summaryFile, statusFile, topicsFile, allTopicsFile, files,
                 company_profile, atLoad, record, paid, other,
                 parse, slug>>

DeleteArtifact ==
  /\ pc \in {"existing", "new"}
  /\ MayFault(topic_status)
  /\ faults' = faults + 1
  /\ \E p \in files : files' = files \ {p}
  /\ UNCHANGED <<summaryFile, statusFile, topicsFile, allTopicsFile,
                 company_profile, topic_status, todo, stage, pc, runlog, calls,
                 visited, atLoad, record, paid, other, parse, slug>>

Next ==
  \/ StartRun
  \/ GuidelineStage
  \/ BlogStage
  \/ ImagesStage
  \/ NewTopicsStep
  \/ NewGuidelineStage
  \/ NewBlogStage
  \/ NewImagesStage
  \/ Crash
  \/ DeleteArtifact

Spec == Init /\ [][Next]_vars

(***************************************************************************)
(* Two invocations on the same files.  The second one is started when the  *)
(* summary file exists, loads the status file as every run does (main.py   *)
(* 137-185) and goes through the loop over its unfinished items (main.py   *)
(* 198-282); nobody is killed and no artifact is removed.  The behaviours  *)
(* end where both invocations have left that loop.                         *)
(***************************************************************************)
PeerStart ==
  /\ other.pc = "off"
  /\ summaryFile = "ok"
  /\ LET loaded == load_json(statusFile)
         seeding == Seeding(loaded, topicsFile, allTopicsFile)
         st == LoadOrSeed(loaded, topicsFile, allTopicsFile)
     IN /\ Len(st) <= ItemCap(faults)
        /\ other' = [pc |-> "run", topic_status |-> st,
                     todo |-> Unfinished(st), stage |-> "g"]
        /\ statusFile' = IF seeding THEN save_json(statusFile, st, "none")
                         ELSE statusFile
        /\ IF seeding THEN Persisted(st) ELSE NotPersisted
  /\ UNCHANGED <<summaryFile, topicsFile, allTopicsFile, files, company_profile,
                 topic_status, todo, stage, pc, runlog, calls, visited, atLoad,
                 faults, parse, slug>>

\* one stage of the second invocation's ladder for Head(other.todo)
PeerLadder(out, nstage, ntodo) ==
  /\ files' = out.files
  /\ other' = [other EXCEPT !.topic_status = out.ts, !.stage = nstage,
                            !.todo = ntodo]
  /\ statusFile' = IF out.saved THEN save_json(statusFile, out.ts, "none")
                   ELSE statusFile
  /\ IF out.saved THEN Persisted(out.ts) ELSE NotPersisted
  /\ UNCHANGED <<summaryFile, topicsFile, allTopicsFile, company_profile,
                 topic_status, todo, stage, pc, runlog, calls, visited, atLoad,
                 faults, parse, slug>>

PeerGuidelineStage ==
  /\ other.pc = "run" /\ other.todo # <<>> /\ other.stage = "g"
  /\ \E r \in TextOutcomes :
       PeerLadder(GuidelineStep(other.topic_status, files, <<>>, Head(other.todo), r),
                  "b", other.todo)

PeerBlogStage ==
  /\ other.pc = "run" /\ other.todo # <<>> /\ other.stage = "b"
  /\ \E rg \in TextOutcomes, rb \in TextOutcomes :
       PeerLadder(BlogStep(other.topic_status, files, <<>>, Head(other.todo), rg, rb),
                  "i", other.todo)

PeerImagesStage ==
  /\ other.pc = "run" /\ other.todo # <<>> /\ other.stage = "i"
  /\ \E rb \in TextOutcomes, ri \in ImageOutcomes :
       PeerLadder(ImagesStep(other.topic_status, files, <<>>, Head(other.todo), rb, ri),
                  "g", Tail(other.todo))

InitConcurrent ==
  /\ summaryFile = "absent"
  /\ statusFile = [state |-> "absent", data |-> <<>>]
  /\ \E l \in LegacyLists, where \in {"topics", "all_topics"} :
       /\ topicsFile = IF where = "topics" THEN FileOf(l) ELSE NoFile
       /\ allTopicsFile = IF where = "all_topics" THEN FileOf(l) ELSE NoFile
  /\ files = {}
  /\ company_profile = "none"
  /\ topic_status = <<>>
  /\ todo = <<>>
  /\ stage = "g"
  /\ pc = "idle"
  /\ runlog = <<>>
  /\ calls = <<>>
  /\ visited = {}
  /\ atLoad = AtLoad(<<>>, <<>>)
  /\ record = <<>>
  /\ paid = {}
  /\ faults = MaxFaults
  /\ other = PeerOff
  /\ parse = NotParsed
  /\ slug = NotSlugged

NextConcurrent ==
  \/ StartRun
  \/ GuidelineStage
  \/ BlogStage
  \/ ImagesStage
  \/ PeerStart
  \/ PeerGuidelineStage
  \/ PeerBlogStage
  \/ PeerImagesStage

SpecConcurrent == InitConcurrent /\ [][NextConcurrent]_vars

(***************************************************************************)
(* Repeated single invocations without a fault of the environment: the     *)
(* process always takes its next step, a run follows every run, and a      *)
(* generation call that is made again and again eventually returns a       *)
(* non-empty result.                                                       *)
(***************************************************************************)
InitLive ==
  /\ summaryFile = "absent"
  /\ statusFile = [state |-> "absent", data |-> <<>>]
  /\ \E l \in LegacyLists \cup {<<>>}, where \in {"topics", "all_topics"} :
       /\ topicsFile = IF l # <<>> /\ where = "topics" THEN FileOf(l) ELSE NoFile
       /\ allTopicsFile = IF l # <<>> /\ where = "all_topics" THEN FileOf(l) ELSE NoFile
  /\ files = {}
  /\ company_profile = "none"
  /\ topic_status = <<>>
  /\ todo = <<>>
  /\ stage = "g"
  /\ pc = "idle"
  /\ runlog = <<>>
  /\ calls = <<>>
  /\ visited = {}
  /\ atLoad = AtLoad(<<>>, <<>>)
  /\ record = <<>>
  /\ paid = {}
  /\ faults = MaxFaults
  /\ other = PeerOff
  /\ parse = NotParsed
  /\ slug = NotSlugged

NextLive ==
  \/ StartRun
  \/ GuidelineStage
  \/ BlogStage
  \/ ImagesStage
  \/ NewTopicsStep
  \/ NewGuidelineStage
  \/ NewBlogStage
  \/ NewImagesStage

\* the step sets a flag of an item
Advances == topic_status' # topic_status /\ Len(topic_status') = Len(topic_status)

SpecLive ==
  /\ InitLive
  /\ [][NextLive]_vars
  /\ WF_vars(NextLive)
  /\ SF_vars(GuidelineStage /\ Advances)
  /\ SF_vars(BlogStage /\ Advances)
  /\ SF_vars(ImagesStage /\ Advances)
  /\ SF_vars(NewGuidelineStage /\ Advances)
  /\ SF_vars(NewBlogStage /\ Advances)
  /\ SF_vars(NewImagesStage /\ Advances)

(***************************************************************************)
(* A save of the status file that raises.  save_json stands inside the     *)
(* try block of its stage (main.py 204-219, 223-248, 252-282, 344-381):    *)
(* when open() or json.dump() raises, the except clause of the stage       *)
(* prints the error and the loop goes on with the list as it is in memory. *)
(* open() that fails leaves the file as it was, a write that fails leaves  *)
(* it truncated.  The failure counts as a fault of the environment.        *)
(***************************************************************************)
StageSaveFails ==
  /\ pc \in {"existing", "new"} /\ todo # <<>>
  /\ MayFault(topic_status)
  /\ faults' = faults + 1
  /\ \E rg \in TextOutcomes, rb \in TextOutcomes, ri \in ImageOutcomes,
        failure \in {"before_save", "during_save"} :
       LET i == Head(todo)
           out == IF pc = "existing"
                  THEN CASE stage = "g" -> GuidelineStep(topic_status, files, <<>>, i, rg)
                         [] stage = "b" -> BlogStep(topic_status, files, calls, i, rg, rb)
                         [] OTHER -> ImagesStep(topic_status, files, calls, i, rb, ri)
                  ELSE CASE stage = "g" -> NewGuidelineStep(topic_status, files, <<>>, i, rg)
                         [] stage = "b" -> NewBlogStep(topic_status, files, calls, i, rb)
                         [] OTHER -> NewImagesStep(topic_status, files, calls, i, ri)
           nstage == CASE stage = "g" -> "b" [] stage = "b" -> "i" [] OTHER -> "g"
           n == IF pc = "existing"
                THEN [stage |-> nstage,
                      todo |-> IF stage = "i" THEN Tail(todo) ELSE todo,
                      pc |-> "existing"]
                ELSE NewNext(todo, TRUE, nstage)
       IN /\ out.saved
          /\ files' = out.files
          /\ topic_status' = out.ts
          /\ statusFile' = save_json(statusFile, out.ts, failure)
          /\ NotPersisted
          /\ pc' = n.pc
          /\ stage' = n.stage
          /\ todo' = n.todo
          /\ calls' = out.calls
          /\ visited' = visited \cup {i}
          /\ UNCHANGED <<summaryFile, topicsFile, allTopicsFile, company_profile,
                         atLoad, runlog, other, parse, slug>>

\* runs in which the fault of the environment is a save of the status file
\* that raises, or a kill during a stage
NextSaveFails ==
  \/ StartRun
  \/ GuidelineStage
  \/ BlogStage
  \/ ImagesStage
  \/ NewTopicsStep
  \/ NewGuidelineStage
  \/ NewBlogStage
  \/ NewImagesStage
  \/ StageSaveFails

SpecSaveFails == Init /\ [][NextSaveFails]_vars

(***************************************************************************)
(* clean_and_parse_json on its own: a model output is drawn, the function  *)
(* is applied to it.                                                       *)
(***************************************************************************)
InitParse ==
  /\ summaryFile = "absent"
  /\ statusFile = [state |-> "absent", data |-> <<>>]
  /\ topicsFile = NoFile
  /\ allTopicsFile = NoFile
  /\ files = {}
  /\ company_profile = "none"
  /\ topic_status = <<>>
  /\ todo = <<>>
  /\ stage = "g"
  /\ pc = "idle"
  /\ runlog = <<>>
  /\ calls = <<>>
  /\ visited = {}
  /\ atLoad = AtLoad(<<>>, <<>>)
  /\ record = <<>>
  /\ paid = {}
  /\ faults = 0
  /\ other = PeerOff
  /\ \E s \in ModelOutputs : parse = [model_output |-> s, result |-> [kind |-> "none"]]
  /\ slug = NotSlugged

ParseOutput ==
  /\ parse.result.kind = "none"
  /\ parse' = [parse EXCEPT !.result = clean_and_parse_json(parse.model_output)]
  /\ UNCHANGED <<summaryFile, statusFile, topicsFile, allTopicsFile, files,
                 company_profile, topic_status, todo, stage, pc, runlog, calls,
                 visited, atLoad, record, paid, faults, other, slug>>

NextParse == ParseOutput

SpecParse == InitParse /\ [][NextParse]_vars

(***************************************************************************)
(* safe_slug on its own: a title and a max_length are drawn and the        *)
(* function is applied to them.  The titles are made of an upper-case and  *)
(* a lower-case letter, a digit, a blank, and the characters the function  *)
(* treats specially or removes.                                            *)
(***************************************************************************)
MaxText == 4

MaxSlug == 5

SlugChars == {"A", "b", "1", " ", "&", "-", "_", "!"}

SlugTexts == UNION {[1..n -> SlugChars] : n \in 0..MaxText}

InitSlug ==
  /\ summaryFile = "absent"
  /\ statusFile = [state |-> "absent", data |-> <<>>]
  /\ topicsFile = NoFile
  /\ allTopicsFile = NoFile
  /\ files = {}
  /\ company_profile = "none"
  /\ topic_status = <<>>
  /\ todo = <<>>
  /\ stage = "g"
  /\ pc = "idle"
  /\ runlog = <<>>
  /\ calls = <<>>
  /\ visited = {}
  /\ atLoad = AtLoad(<<>>, <<>>)
  /\ record = <<>>
  /\ paid = {}
  /\ faults = 0
  /\ other = PeerOff
  /\ parse = NotParsed
  /\ \E t \in SlugTexts, m \in 0..MaxSlug :
       slug = [text |-> t, max_length |-> m, done |-> FALSE, result |-> <<>>]

SlugText ==
  /\ ~slug.done
  /\ slug' = [slug EXCEPT !.done = TRUE,
                          !.result = safe_slug(slug.text, slug.max_length)]
  /\ UNCHANGED <<summaryFile, statusFile, topicsFile, allTopicsFile, files,
                 company_profile, topic_status, todo, stage, pc, runlog, calls,
                 visited, atLoad, record, paid, faults, other, parse>>

NextSlug == SlugText

SpecSlug == InitSlug /\ [][NextSlug]_vars

(***************************************************************************)
(* Properties.                                                             *)
(***************************************************************************)
Range(s) == {s[k] : k \in DOMAIN s}

Running == pc \in {"existing", "new", "done"}

\* the list the next run works on, read from the files as they are now
NextLoad == LoadOrSeed(load_json(statusFile), topicsFile, allTopicsFile)

AllComplete(st) == \A k \in DOMAIN st : IsComplete(st[k])

Monotone(t) ==
  /\ t.blog_generated => t.guideline_generated
  /\ t.images_generated => t.blog_generated

\* C1: every WorkItem, in memory and in the status file, has
\* blog_generated only with guideline_generated and images_generated only
\* with blog_generated, in every reachable state, a killed process included.
C1_StageMonotonicity ==
  /\ \A k \in DOMAIN topic_status : Monotone(topic_status[k])
  /\ \A k \in DOMAIN statusFile.data : Monotone(statusFile.data[k])

\* the process was killed between writing the article and saving the list:
\* memory has the item's article flag, the status file only its guideline flag
C1_Witness ==
  /\ pc = "crashed"
  /\ statusFile.state = "ok"
  /\ \E k \in (DOMAIN topic_status) \cap (DOMAIN statusFile.data) :
       /\ topic_status[k].blog_generated
       /\ statusFile.data[k].guideline_generated
       /\ ~statusFile.data[k].blog_generated

StageFlags == {"guideline_generated", "blog_generated", "images_generated"}

\* the stage transitions the list "mem" shows and the list "disk" does not
LostStages(mem, disk) ==
  {<<k, f>> \in (DOMAIN mem) \X StageFlags :
     mem[k][f] /\ ~(k \in DOMAIN disk /\ disk[k].title = mem[k].title /\ disk[k][f])}

\* C2: wherever the process is killed, the list the next run loads shows
\* every stage transition the killed process had made, except at most one
\* stage of one item.
C2_CrashBlastRadius ==
  pc = "crashed" => Cardinality(LostStages(topic_status, NextLoad)) <= 1

\* C3: any two distinct WorkItems of the list, in memory and in the status
\* file, have different normalized (stripped, lower-cased) titles.
C3_NoDuplicateTitles ==
  /\ \A j, k \in DOMAIN topic_status :
       j # k => NormTitle(topic_status[j].title) # NormTitle(topic_status[k].title)
  /\ \A j, k \in DOMAIN statusFile.data :
       j # k => NormTitle(statusFile.data[j].title) # NormTitle(statusFile.data[k].title)

\* C4: whenever the images stage has run for an item, whatever
\* generate_images_for_blog did (returned or raised), the item has
\* images_generated set in memory and in the status file.
C4_ImagesBestEffort ==
  Running =>
    \A c \in Range(calls) :
      c.fn = "images" =>
        /\ topic_status[c.item].images_generated
        /\ c.item \in DOMAIN load_json(statusFile)
        /\ load_json(statusFile)[c.item].images_generated

\* C5: a failing stage of one item does not stop the loop: every unfinished
\* item of the run has been visited or is still to be visited, in the loop
\* over existing items and in the loop over new items, and every stage of
\* the visited item whose generator succeeded has set its flag.
C5_CrashIsolation ==
  Running =>
    /\ \A k \in DOMAIN topic_status :
         ~IsComplete(topic_status[k]) => k \in visited \cup Range(todo)
    /\ \A c \in Range(calls) :
         /\ (c.fn = "guideline" /\ c.stage = "g" /\ c.res = "text")
              => topic_status[c.item].guideline_generated
         /\ (c.fn = "blog" /\ c.stage = "b" /\ c.res = "text")
              => topic_status[c.item].blog_generated
         /\ (c.fn = "images" /\ c.res = "folder")
              => topic_status[c.item].images_generated

\* no artifact was removed and nobody was killed; the images stage of item a
\* raised, and the later item b was visited in the same run and is complete
C5_Witness ==
  /\ pc = "done"
  /\ faults = 0
  /\ \E a, b \in visited :
       /\ a < b
       /\ topic_status[a].blog_generated
       /\ ~topic_status[a].images_generated
       /\ IsComplete(topic_status[b])
       /\ \E c \in Range(calls) : c.item = b /\ c.fn = "images" /\ c.res = "folder"

\* C6: a step of a run calls generate_blog_topics, or appends an item, only
\* when every item of the list is complete after the first loop; with an
\* unfinished item left, the step after the first loop ends the run and
\* leaves the list as it is.
C6_NoGrowthWhileOutstanding ==
  [][ /\ (/\ pc \in {"existing", "new"}
          /\ \/ Len(runlog') > Len(runlog)
             \/ Len(topic_status') > Len(topic_status))
        => (todo = <<>> /\ AllComplete(topic_status))
      /\ (/\ pc = "existing" /\ todo = <<>>
          /\ ~AllComplete(topic_status)
          /\ pc' \notin {"existing", "crashed"})
        => (pc' = "done" /\ topic_status' = topic_status /\ runlog' = runlog)
    ]_vars

\* a run has ended with an unfinished item, without a call of the proposer
\* and with the list as long as it was after loading
C6_Witness ==
  /\ pc = "done"
  /\ ~AllComplete(topic_status)
  /\ \A c \in Range(runlog) : c.fn # "topics"
  /\ Len(topic_status) = atLoad.seeded

\* C7: when generate_guideline_text returns an empty string in the
\* guideline stage of an item, the item's guideline_generated stays false,
\* the run calls neither the article nor the images generator for the item
\* and does not visit it again, and when the run has ended the item is among
\* the unfinished items of the next run.
C7_EmptyGuidelineRetry ==
  Running =>
    \A c \in Range(calls) :
      (c.fn = "guideline" /\ c.stage = "g" /\ c.res = "empty") =>
        /\ ~topic_status[c.item].guideline_generated
        /\ \A d \in Range(calls) : d.item = c.item => d.fn \notin {"blog", "images"}
        /\ \A j \in 2..Len(todo) : todo[j] # c.item
        /\ pc = "done" =>
             /\ c.item \in DOMAIN NextLoad
             /\ NextLoad[c.item].title = topic_status[c.item].title
             /\ c.item \in Range(Unfinished(NextLoad))

\* a run has ended whose last item got an empty guideline
C7_Witness ==
  /\ pc = "done"
  /\ \E c \in Range(calls) : c.fn = "guideline" /\ c.stage = "g" /\ c.res = "empty"

\* C8: no step calls generate_guideline_text, in the guideline stage or as
\* the fallback of the article stage, for an item that a written list has
\* shown with guideline_generated set and whose guideline file is readable.
C8_NoRegeneration ==
  [][ (pc \in {"existing", "new"} /\ todo # <<>> /\ calls' # calls) =>
        \A c \in Range(calls') :
          (c.fn = "guideline" /\ c.stage = stage) =>
            ~(/\ <<c.item, topic_status[c.item].title>> \in paid
              /\ Readable(GuidelinePath(topic_status[c.item].title), files))
    ]_vars

\* C9 as stated: a run that loaded a list of complete items only (the empty
\* list included) holds at most NUM_NEW_TOPICS items more than it loaded,
\* and every item it loaded is still complete.
C9_Idempotence ==
  (Running /\ atLoad.complete) =>
    /\ Len(topic_status) <= atLoad.len + NUM_NEW_TOPICS
    /\ \A k \in 1..atLoad.len : IsComplete(topic_status[k])

\* C9, amended: a run that loaded a list of complete items only holds at
\* most NUM_NEW_TOPICS items more than the list it loaded or, when that list
\* was empty, seeded from a legacy topic file, and every item it loaded is
\* still complete.
C9_IdempotenceAmended ==
  (Running /\ atLoad.complete) =>
    /\ Len(topic_status) <= atLoad.seeded + NUM_NEW_TOPICS
    /\ \A k \in 1..atLoad.len : IsComplete(topic_status[k])

\* a run that loaded a non-empty list of complete items has ended with
\* exactly NUM_NEW_TOPICS items more
C9_Witness ==
  /\ pc = "done"
  /\ atLoad.len >= 1
  /\ atLoad.complete
  /\ Len(topic_status) = atLoad.len + NUM_NEW_TOPICS

\* the list "new" keeps every item of "old" in place and every flag set
Extends(old, new) ==
  /\ Len(old) <= Len(new)
  /\ \A k \in DOMAIN old :
       /\ new[k].title = old[k].title
       /\ \A f \in StageFlags : old[k][f] => new[k][f]

\* C10: every list written to the status file keeps the items of the list
\* written before it, in their order, and every flag that was set, also
\* when the file could not be parsed on load.
C10_MonotoneRecord ==
  [][statusFile'.state = "ok" => Extends(record, statusFile'.data)]_vars

\* the entries of a response that may be accepted: the normalized title is
\* not empty, is not the normalized title of an item of st, and is not the
\* normalized title of an earlier such entry
Candidates(items, st) ==
  {k \in DOMAIN items :
     /\ NormTitle(items[k]) # <<>>
     /\ \A j \in DOMAIN st : NormTitle(st[j].title) # NormTitle(items[k])
     /\ \A j \in 1..(k - 1) : NormTitle(items[j]) # NormTitle(items[k])}

\* the first NUM_NEW_TOPICS candidates, in response order
FirstCandidates(items, st) ==
  {k \in Candidates(items, st) :
     Cardinality({j \in Candidates(items, st) : j < k}) < NUM_NEW_TOPICS}

\* the items appended for them: the stripped title, no flag set
ExpectedNew(items, st) ==
  LET pick == SelectSeq([k \in DOMAIN items |-> k],
                        LAMBDA k : k \in FirstCandidates(items, st))
  IN [n \in DOMAIN pick |->
        [title |-> Strip(items[pick[n]]), keyword |-> <<>>,
         guideline_generated |-> FALSE, blog_generated |-> FALSE,
         images_generated |-> FALSE,
         guideline_path |-> <<>>, blog_path |-> <<>>, images |-> EmptyList]]

FreshStart == atLoad.len = 0 /\ atLoad.seeded = 0

TopicsCalls == {k \in DOMAIN runlog : runlog[k].fn = "topics"}

\* C12: a run that found no item and no legacy list to seed from, once it
\* has ended, has called generate_blog_topics exactly once, holds at most
\* NUM_NEW_TOPICS items, no two with the same normalized title, has written
\* them to the status file, and its loop over the new items has visited each
\* of them; while that loop is running the appended items are already in the
\* status file.
C12_FreshStart ==
  /\ (pc = "done" /\ FreshStart) =>
       /\ Cardinality(TopicsCalls) = 1
       /\ Len(topic_status) <= NUM_NEW_TOPICS
       /\ \A j, k \in DOMAIN topic_status :
            j # k => NormTitle(topic_status[j].title) # NormTitle(topic_status[k].title)
       /\ load_json(statusFile) = topic_status
       /\ DOMAIN topic_status \subseteq visited
  /\ (pc = "new" /\ FreshStart) =>
       /\ Cardinality(TopicsCalls) = 1
       /\ statusFile.state = "ok"
       /\ Len(statusFile.data) = Len(topic_status)
       /\ \A k \in DOMAIN topic_status :
            /\ statusFile.data[k].title = topic_status[k].title
            /\ k \in visited \cup Range(todo)

\* a fresh run has ended with two new items, both taken through the ladder
\* to completion
C12_Witness ==
  /\ pc = "done"
  /\ FreshStart
  /\ Len(topic_status) = NUM_NEW_TOPICS
  /\ AllComplete(topic_status)
  /\ visited = DOMAIN topic_status

\* every generation call made for the item visited last returned a
\* non-empty result
AllCallsSucceeded ==
  calls # <<>> /\ \A c \in Range(calls) : c.res \in {"text", "folder"}

\* C13: when the loop over existing items has taken an unfinished item
\* through its ladder and every generation call made for it returned a
\* non-empty result, the item has its three flags set, guideline_path and
\* blog_path name the files written for its title, images holds what the
\* images generator returned, and the status file holds that very list.
C13_HappyPath ==
  (pc = "existing" /\ stage = "g" /\ AllCallsSucceeded) =>
    LET t == topic_status[calls[1].item]
    IN /\ IsComplete(t)
       /\ t.guideline_path = GuidelinePath(t.title)
       /\ t.blog_path = BlogPath(t.title)
       /\ t.images.refs = ImagesFolder(t.title)
       /\ t.images.refs # <<>>
       /\ statusFile = Written(topic_status)

\* the run started with one item, no flag set, and its three calls succeeded
C13_Witness ==
  /\ pc = "existing" /\ stage = "g" /\ todo = <<>>
  /\ faults = 0
  /\ atLoad.len = 1 /\ ~atLoad.complete
  /\ Len(calls) = 3
  /\ AllCallsSucceeded
  /\ IsComplete(topic_status[1])

\* C14: a run goes past the profile step only with a usable company
\* profile; without one (the summarizer returned nothing, or the cached
\* summary file could not be loaded) it is aborted before the status file
\* is loaded, so that it makes no generation call and writes no list.
C14_FatalProfileFailure ==
  company_profile # "profile" =>
    /\ pc \notin {"existing", "new", "done"}
    /\ calls = <<>>
    /\ TopicsCalls = {}

\* C15: no call of a component (summarize_company_info,
\* generate_blog_topics, generate_guideline_text,
\* generate_blog_from_guideline, generate_images_for_blog) ends with an
\* exception reaching its caller: a failure shows as an empty value.
C15_ComponentsNeverRaise ==
  /\ \A c \in Range(calls) \cup Range(runlog) : c.res # "raise"
  /\ (pc = "crashed" => faults > 0)

\* a step of the ladder that has taken the stage s of Head(todo) and was
\* not cut short by a kill
StageTaken(s) ==
  /\ pc \in {"existing", "new"} /\ todo # <<>> /\ stage = s
  /\ stage' # s
  /\ pc' # "crashed"

\* the calls of fn the step has added for the stage s
Added(fn, s) == {c \in Range(calls') : c.fn = fn /\ c.stage = s}

\* C18: whenever the article stage is taken for an item with
\* guideline_generated set and blog_generated not, in the loop over existing
\* items or in the loop over new items, and the file at guideline_path is
\* missing or unreadable, generate_guideline_text is called again and,
\* unless that call raises, generate_blog_from_guideline is called next.
C18_ArticleFallback ==
  [][ (/\ StageTaken("b")
       /\ BlogGate(topic_status[Head(todo)])
       /\ ~Readable(topic_status[Head(todo)].guideline_path, files))
      => /\ Added("guideline", "b") # {}
         /\ (\A c \in Added("guideline", "b") : c.res # "raise")
              => Added("blog", "b") # {}
    ]_vars

\* C19: whenever the images stage is taken for an item with blog_generated
\* set and images_generated not, in the loop over existing items or in the
\* loop over new items, and the file at blog_path is missing or unreadable,
\* generate_blog_from_guideline is called again and, unless that call
\* raises, generate_images_for_blog is called next.
C19_ImagesFallback ==
  [][ (/\ StageTaken("i")
       /\ ImagesGate(topic_status[Head(todo)])
       /\ ~Readable(topic_status[Head(todo)].blog_path, files))
      => /\ Added("blog", "i") # {}
         /\ (\A c \in Added("blog", "i") : c.res # "raise")
              => Added("images", "i") # {}
    ]_vars

C16_WholeFileSave ==
  [][ statusFile' # statusFile =>
        \/ (topic_status' # <<>> /\ statusFile' = Written(topic_status'))
        \/ (other'.pc = "run" /\ statusFile' = Written(other'.topic_status))
    ]_vars

\* both invocations have left their loops; a list written to the status
\* file showed item k with guideline_generated set, and the status file now
\* holds the same item without it
C16_Witness ==
  /\ pc = "existing" /\ todo = <<>>
  /\ other.pc = "run" /\ other.todo = <<>>
  /\ statusFile.state = "ok"
  /\ \E e \in paid :
       /\ e[1] \in DOMAIN statusFile.data
       /\ statusFile.data[e[1]].title = e[2]
       /\ ~statusFile.data[e[1]].guideline_generated

\* the status file holds an item at k
Tracked(k) == statusFile.state = "ok" /\ k \in DOMAIN statusFile.data

\* C17: under repeated single invocations in which a generation call that
\* is made again and again eventually returns a non-empty result, every item
\* the status file ever holds eventually has its three flags set there: an
\* item left unfinished by one run is taken up by the next.
C17_EventualCompletion ==
  \A k \in 1..MaxItems :
    Tracked(k) ~> (Tracked(k) /\ IsComplete(statusFile.data[k]))

\* a run that loaded an item left unfinished by an earlier run has ended
\* with every item complete
C17_Witness ==
  /\ pc = "done"
  /\ atLoad.len >= 1
  /\ ~atLoad.complete
  /\ topic_status # <<>>
  /\ AllComplete(topic_status)
  /\ statusFile = Written(topic_status)

\* the names under which a report would give its counts
ReportKeys == {"guideline", "blog", "images", "incomplete"}

\* C21: every run that gets past the profile step and reaches its end,
\* a run that made no progress included, gives back a report with the number
\* of items processed per stage and the number of items still incomplete.
C21_RunReport ==
  pc = "done" =>
    /\ ReportKeys \subseteq DOMAIN RunReport(topic_status).counts
    /\ RunReport(topic_status).counts["incomplete"] = Len(Unfinished(topic_status))

\* what the claim says the function returns for a model output
ClaimedParse(model_output) ==
  IF model_output = <<>> THEN EmptyRecord
  ELSE IF IsJsonValue(NoSpace(Cleaned(model_output)))
       THEN [kind |-> "value", val |-> NoSpace(Cleaned(model_output))]
       ELSE RawOutput(model_output)

\* C22: for every model output, clean_and_parse_json returns a value and
\* raises nothing: the empty record for the empty output, the parsed value
\* when the text without its code fences is valid JSON, and otherwise the
\* record {raw_output: the output as it was given}.
C22_ParsingNeverFails ==
  parse.result.kind # "none" =>
    /\ parse.result.kind # "raise"
    /\ parse.result = ClaimedParse(parse.model_output)

\* the generation calls a step of the ladder has made for Head(todo): the log
\* starts anew with the guideline stage of an item, which is the first visit
\* of the item (the log of a killed process is gone)
CallsMade ==
  IF pc \in {"existing", "new"} /\ todo # <<>> /\ pc' # "crashed"
  THEN IF stage = "g"
       THEN (IF visited' # visited THEN Range(calls') ELSE {})
       ELSE {calls'[k] : k \in (Len(calls) + 1)..Len(calls')}
  ELSE {}

\* C23: in every run, in both loops, generate_blog_from_guideline is called
\* for the article stage of an item only when the item's guideline_generated
\* is true, generate_images_for_blog is called for an item only when its
\* blog_generated is true, and the guideline stage calls
\* generate_guideline_text only when guideline_generated is false.
C23_StageGates ==
  [][ \A c \in CallsMade :
        /\ c.item = Head(todo)
        /\ (c.fn = "blog" /\ c.stage = "b") => topic_status[c.item].guideline_generated
        /\ c.fn = "images" => topic_status[c.item].blog_generated
        /\ (c.fn = "guideline" /\ c.stage = "g") => ~topic_status[c.item].guideline_generated
    ]_vars

\* the three stages of an item have made their calls in this run, and the
\* item is complete
C23_Witness ==
  /\ pc \in {"existing", "new", "done"}
  /\ \E i \in DOMAIN topic_status :
       /\ IsComplete(topic_status[i])
       /\ \A fn \in {"guideline", "blog", "images"} :
            \E c \in Range(calls) : c.fn = fn /\ c.item = i /\ c.res \in {"text", "folder"}

\* the flags of the list on disk are those of the list in memory
PersistedFlags ==
  LET disk == load_json(statusFile)
  IN /\ Len(disk) = Len(topic_status)
     /\ \A k \in DOMAIN topic_status :
          /\ disk[k].guideline_generated = topic_status[k].guideline_generated
          /\ disk[k].blog_generated = topic_status[k].blog_generated
          /\ disk[k].images_generated = topic_status[k].images_generated

\* C24: after every stage that sets a flag the whole list is written to the
\* status file before the next generation call of the run, so whenever a run
\* is about to take a stage the flags of all items in the status file are
\* the flags in memory.
C24_PersistBeforeContinuing ==
  pc \in {"existing", "new"} => PersistedFlags

\* the place of a stage in the ladder
StageRank(s) == CASE s = "g" -> 1 [] s = "b" -> 2 [] OTHER -> 3

\* a loop of the run is at an item
AtItem == pc \in {"existing", "new"} /\ todo # <<>>

\* C25: within one run the items are taken one at a time in the order of
\* the list, and the stages of an item in the order guideline, article,
\* images: the items still to visit are in increasing order and lie after
\* every item visited, the calls logged for the item visited last are in the
\* order of the stages, and a step of the ladder either goes to a later stage
\* of the same item or to the guideline stage of a later item.
C25_SequentialOrder ==
  [][ /\ AtItem =>
           /\ \A a, b \in DOMAIN todo : a < b => todo[a] < todo[b]
           /\ \A v \in visited : v <= Head(todo)
           /\ stage = "g" => Head(todo) \notin visited
           /\ \A a, b \in DOMAIN calls :
                a < b => /\ calls[a].item = calls[b].item
                         /\ StageRank(calls[a].stage) <= StageRank(calls[b].stage)
      /\ (AtItem /\ pc' \in {"existing", "new"} /\ todo' # <<>>
            /\ <<todo', stage'>> # <<todo, stage>>)
           => \/ Head(todo') = Head(todo) /\ StageRank(stage') > StageRank(stage)
              \/ Head(todo') > Head(todo) /\ stage' = "g"
    ]_vars

\* a run has walked two items, the first through its three stages, and is
\* at a later stage of the second
C25_Witness ==
  /\ AtItem
  /\ stage = "i"
  /\ \E v \in visited : v < Head(todo) /\ IsComplete(topic_status[v])
  /\ \E c \in Range(calls) : c.item = Head(todo) /\ c.fn = "blog"

\* C26: for every combination of the results of the generators (text, empty,
\* raised) and of the artifacts present on disk, the stage the loop over the
\* new items is about to take gives the same flags, the same stored paths,
\* the same save and the same generation calls as the stage of the loop over
\* the existing items would give for the same item.
C26_SameLadderForNewItems ==
  (pc = "new" /\ todo # <<>>) =>
    \A rg \in TextOutcomes, rb \in TextOutcomes, ri \in ImageOutcomes :
      LET i == Head(todo)
      IN CASE stage = "g" ->
                NewGuidelineStep(topic_status, files, <<>>, i, rg)
                  = GuidelineStep(topic_status, files, <<>>, i, rg)
           [] stage = "b" ->
                NewBlogStep(topic_status, files, calls, i, rb)
                  = BlogStep(topic_status, files, calls, i, rg, rb)
           [] OTHER ->
                NewImagesStep(topic_status, files, calls, i, ri)
                  = ImagesStep(topic_status, files, calls, i, rb, ri)

\* C27: a run changes no field (flags, paths, images, title, keyword) of an
\* item that was complete when the list was loaded, and makes no generation
\* call for it: the list a run starts with holds every complete item of the
\* status file as it is stored, and no step of a run changes a complete
\* item, in memory or in the file it writes, or makes a call for it.
C27_CompleteItemsUntouched ==
  [][ /\ (pc \notin {"existing", "new"} /\ pc' = "existing") =>
           \A k \in DOMAIN load_json(statusFile) :
             IsComplete(load_json(statusFile)[k])
               => topic_status'[k] = load_json(statusFile)[k]
      /\ pc \in {"existing", "new"} =>
           \A k \in DOMAIN topic_status :
             IsComplete(topic_status[k]) =>
               /\ k \in DOMAIN topic_status'
               /\ topic_status'[k] = topic_status[k]
               /\ \A c \in CallsMade : c.item # k
               /\ (statusFile' # statusFile /\ statusFile'.state = "ok")
                    => statusFile'.data[k] = topic_status[k]
    ]_vars

\* a run that loaded complete items has appended new items and worked on
\* them; the loaded items are as they were
C27_Witness ==
  /\ pc = "done"
  /\ atLoad.len >= 1
  /\ atLoad.complete
  /\ Len(topic_status) > atLoad.len
  /\ calls # <<>>
  /\ \A k \in 1..atLoad.len : IsComplete(topic_status[k])

\* the legacy list a run would seed from
LegacyItems == IF topicsFile.exists THEN topicsFile.items ELSE allTopicsFile.items

\* the start of a run writes the status file: it seeds from a legacy list
SeedingStep == pc \notin {"existing", "new"} /\ statusFile' # statusFile

\* C28: the migration runs only when the loaded list is empty; it seeds one
\* item per legacy entry, with the three flags false and no path, and saves
\* the seeded list before any stage runs; it is never performed again once
\* a non-empty list has been written to the status file.
C28_Migration ==
  [][ SeedingStep =>
        /\ load_json(statusFile) = <<>>
        /\ record = <<>>
        /\ pc' = "existing" =>
             /\ Len(topic_status') = Len(LegacyItems)
             /\ \A k \in DOMAIN topic_status' :
                  /\ topic_status'[k] = ensure_status_entry(normalize_topic_item(LegacyItems[k]))
                  /\ \A f \in StageFlags : ~topic_status'[k][f]
                  /\ topic_status'[k].guideline_path = <<>>
                  /\ topic_status'[k].blog_path = <<>>
             /\ statusFile' = Written(topic_status')
             /\ calls' = <<>>
    ]_vars

\* C29: in every reachable state the images field of every item, in memory
\* and in the status file, is a list of image references, empty when none
\* was stored.
C29_ImageReferenceType ==
  /\ \A k \in DOMAIN topic_status : topic_status[k].images.kind = "list"
  /\ \A k \in DOMAIN load_json(statusFile) :
       load_json(statusFile)[k].images.kind = "list"

\* how often the run has called fn for the item visited last
CallCount(fn) == Cardinality({k \in DOMAIN calls : calls[k].fn = fn})

\* the stages the loops of the run still have before them
StagesLeft(td, s) == 3 * Len(td) - (StageRank(s) - 1)

\* the work of one run: no stage of an item makes the same call twice, the
\* Guideline Expander and the Article Drafter are each called at most "most"
\* times for an item and the Illustration Generator at most once, an item
\* is visited once (so by one of the two loops only), and every step of a
\* loop leaves fewer stages to take
WorkBound(most) ==
  /\ Running =>
       /\ \A a, b \in DOMAIN calls :
            a < b => <<calls[a].fn, calls[a].stage>> # <<calls[b].fn, calls[b].stage>>
       /\ CallCount("guideline") <= most
       /\ CallCount("blog") <= most
       /\ CallCount("images") <= 1
  /\ AtItem =>
       /\ \A a, b \in DOMAIN todo : a # b => todo[a] # todo[b]
       /\ \A a \in 2..Len(todo) : todo[a] \notin visited
       /\ stage = "g" => Head(todo) \notin visited
  /\ (AtItem /\ pc' \in {"existing", "new", "done"}
        /\ <<todo', stage', pc'>> # <<todo, stage, pc>>)
       => StagesLeft(todo', stage') < StagesLeft(todo, stage)

\* C30 as stated: in one run each stage is attempted at most once per item,
\* the Guideline Expander and the Article Drafter are each called at most
\* once per item, no item is processed in both loops, and the run ends after
\* finitely many generation calls.
C30_BoundedWork == [][WorkBound(1)]_vars

\* C30, amended: in one run each stage is attempted at most once per item,
\* the Guideline Expander and the Article Drafter are each called at most
\* twice per item (once in their own stage and once as the fallback of the
\* following stage when the stored artifact is missing), the Illustration
\* Generator at most once, no item is processed in both loops, and the run
\* ends after finitely many generation calls.
C30_BoundedWorkAmended == [][WorkBound(2)]_vars

\* the Guideline Expander has been called twice for an item in one run: in
\* the guideline stage, and again in the article stage because the file
\* was gone
C30_Witness ==
  /\ Running
  /\ CallCount("guideline") = 2
  /\ \E c \in Range(calls) : c.fn = "blog" /\ c.res = "text"

\* the items whose flag is set in the list the step leaves on disk and was
\* not set in the list that was there before the step
NewlyFlagged(flag) ==
  {k \in DOMAIN load_json(statusFile') :
     /\ load_json(statusFile')[k][flag]
     /\ ~(k \in DOMAIN load_json(statusFile) /\ load_json(statusFile)[k][flag])}

ArtifactThere(flag, path) ==
  \A k \in NewlyFlagged(flag) : load_json(statusFile')[k][path] \in files'

\* C31: artifact before flag.  Every step that puts guideline_generated (or
\* blog_generated) = true for an item into the status file on disk leaves
\* the file named by the item's persisted guideline_path (blog_path) on disk
\* as well: the artifact was written before the flag was saved, whether the
\* step runs to its end or the process dies at one of its crash points.
C31_ArtifactBeforeFlag ==
  [][/\ ArtifactThere("guideline_generated", "guideline_path")
     /\ ArtifactThere("blog_generated", "blog_path")]_vars

\* a process that died with both flags of an item on disk, both files there
C31_Witness ==
  /\ pc = "crashed"
  /\ statusFile.state = "ok"
  /\ \E k \in DOMAIN statusFile.data :
       /\ statusFile.data[k].guideline_generated
       /\ statusFile.data[k].blog_generated
       /\ statusFile.data[k].guideline_path \in files
       /\ statusFile.data[k].blog_path \in files

\* C32: distinct artifacts per item.  Two items of the tracker whose
\* normalized titles differ have different guideline_path values once both
\* are set, and different blog_path values once both are set.
C32_DistinctArtifacts ==
  Running =>
    \A i, j \in DOMAIN topic_status :
      NormTitle(topic_status[i].title) # NormTitle(topic_status[j].title) =>
        /\ (topic_status[i].guideline_generated /\ topic_status[j].guideline_generated
              => topic_status[i].guideline_path # topic_status[j].guideline_path)
        /\ (topic_status[i].blog_generated /\ topic_status[j].blog_generated
              => topic_status[i].blog_path # topic_status[j].blog_path)

\* the titles of the items the step appends to the tracker
AppendedTitles ==
  {topic_status'[k].title : k \in (Len(topic_status) + 1)..Len(topic_status')}

\* C33: malformed proposal is not work.  When the new-topic step appends
\* items, the Topic Proposer's response was a list of topics and the title
\* of every appended item is the (stripped) title of an entry of that list;
\* a response that is the empty record or the raw-output record appends
\* nothing.
C33_MalformedProposalIsNotWork ==
  [][ (pc = "existing" /\ todo = <<>> /\ Len(runlog') > Len(runlog)) =>
        LET c == runlog'[Len(runlog')]
        IN /\ AppendedTitles # {} =>
                /\ c.res = "list"
                /\ AppendedTitles \subseteq
                     {normalize_topic_item(c.items[k]).title : k \in DOMAIN c.items}
           /\ c.res \in {"empty", "raw"} => topic_status' = topic_status
    ]_vars

FlagImpliesPath(st) ==
  \A k \in DOMAIN st :
    /\ st[k].guideline_generated => st[k].guideline_path # <<>>
    /\ st[k].blog_generated => st[k].blog_path # <<>>

\* C34: flag implies path.  In every state of a tracker that started empty,
\* every item with guideline_generated = true has a non-empty guideline_path
\* and every item with blog_generated = true has a non-empty blog_path, in
\* the list the run holds and in the list on disk.
C34_FlagImpliesPath ==
  /\ FlagImpliesPath(topic_status)
  /\ FlagImpliesPath(load_json(statusFile))

\* an item that has passed the guideline and the article stage, on disk too
C34_Witness ==
  /\ \E k \in DOMAIN topic_status :
       /\ topic_status[k].guideline_generated
       /\ topic_status[k].blog_generated
  /\ \E k \in DOMAIN load_json(statusFile) :
       /\ load_json(statusFile)[k].guideline_generated
       /\ load_json(statusFile)[k].blog_generated

\* C35: safe_slug output shape.  For every title and every max_length >= 0
\* the slug has at most max_length characters, consists of lowercase
\* letters, digits and underscores only, and neither starts nor ends with
\* an underscore.
C35_SafeSlugShape ==
  slug.done =>
    /\ Len(slug.result) <= slug.max_length
    /\ \A k \in DOMAIN slug.result :
         slug.result[k] \in LowerLetters \cup Digits \cup {"_"}
    /\ slug.result # <<>> =>
         /\ Head(slug.result) # "_"
         /\ slug.result[Len(slug.result)] # "_"

====
